---- MODULE Spec2Model ----
(***************************************************************************)
(* A model of tabhouse/bhap: the proposal store with its id allocator      *)
(* (bhap.go) and the proposal page handler with its options mode and vote  *)
(* breakdown (bhap_page.go).                                               *)
(*                                                                         *)
(* Three specifications share the variables:                               *)
(*   Spec      the store under concurrent requests: proposal creations     *)
(*             (nextID, then the insert) and vote submissions;             *)
(*   PageSpec  serveBHAPPage as a function of what its queries returned:   *)
(*             Init draws the query results, ServePage runs the handler.   *)
(*   SiteSpec  serveBHAPPage on the store: proposal creations and page     *)
(*             requests by id, from the parsing of the id on.              *)
(***************************************************************************)
EXTENDS Integers, Sequences, FiniteSets, TLC

(* ------------------------------ bounds -------------------------------- *)

\* Proposals the store may hold before creations stop.
MaxBHAPs == 2
\* Votes the store may hold before submissions stop.
MaxVotes == 2
\* The longest vote list a page request reads.
MaxPageVotes == 3
\* The largest user count a page request reads.
MaxUserCount == 5

\* Concurrent proposal-creation requests; request p is made by user Creator(p).
CreateReqs == {"c1", "c2"}
\* Concurrent vote-submission requests.
VoteReqs == {"v1", "v2"}
\* User keys.
Users == {"u1", "u2"}

\* A nil *datastore.Key.
Nil == "nil"

(* ------------------------- bhap.go: statuses -------------------------- *)

draftStatus == "Draft"
deferredStatus == "Deferred"
rejectedStatus == "Rejected"
discussionStatus == "Discussion"
withdrawnStatus == "Withdrawn"
acceptedStatus == "Accepted"
replacedStatus == "Replaced"
aprilFoolsStatus == "April Fools"

\* The eight values of type status.
status ==
    {draftStatus, deferredStatus, rejectedStatus, discussionStatus,
     withdrawnStatus, acceptedStatus, replacedStatus, aprilFoolsStatus}

(* --------------------- bhap_page.go: options modes -------------------- *)

notLoggedIn == "notLoggedIn"
draftNotAuthor == "draftNotAuthor"
draftAuthor == "draftAuthor"
discussionAuthor == "discussionAuthor"
discussionNoVote == "discussionNoVote"
discussionVoted == "discussionVoted"
finalized == "finalized"

\* The seven values of type optionsMode.
optionsMode ==
    {notLoggedIn, draftNotAuthor, draftAuthor, discussionAuthor,
     discussionNoVote, discussionVoted, finalized}

VARIABLES
    bhaps,   \* the stored BHAP entities, in the order they were put
    votes,   \* the stored vote entities, in the order they were put
    cpc,     \* cpc[p]: position of creation request p
    cid,     \* cid[p]: the id nextID returned to creation request p
    vreq,    \* vreq[r]: vote submission r: its state, arguments and result
    req,     \* what the page handler's queries returned
    page     \* the page handler's outcome

vars == <<bhaps, votes, cpc, cid, vreq, req, page>>

(* ------------------------------ helpers ------------------------------- *)

Range(s) == {s[i] : i \in 1..Len(s)}

\* The user a creation request acts for (the session's user key).
Creator(p) == IF p = "c1" THEN "u1" ELSE "u2"

(* ----------------------- bhap.go: the id allocator -------------------- *)

\* The query of nextID: the BHAP entities ordered by "-ID", limited to one.
nextIDQuery(store) ==
    IF store = <<>>
    THEN <<>>
    ELSE <<CHOOSE b \in Range(store) : \A c \in Range(store) : c.ID <= b.ID>>

\* nextID with the "+ 1" forgotten.
nextIDNoIncrement(store) ==
    LET results == nextIDQuery(store)
    IN  IF Len(results) = 0 THEN 0 ELSE results[1].ID

\* nextID: 0 when the query returns nothing, else the first result's ID + 1.
nextID(store) ==
    LET results == nextIDQuery(store)
    IN  IF Len(results) = 0 THEN 0 ELSE results[1].ID + 1

\* Requests that hold an id and have not put their proposal yet.
InFlightCreates == {p \in CreateReqs : cpc[p] = "insert"}

\* nextID made to reserve the id it returns, by putting an entity that holds it.
NextIDReserving(p) ==
    /\ cpc[p] = "idle"
    /\ Len(bhaps) + Cardinality(InFlightCreates) < MaxBHAPs
    /\ cid' = [cid EXCEPT ![p] = nextID(bhaps)]
    /\ cpc' = [cpc EXCEPT ![p] = "insert"]
    /\ bhaps' = Append(bhaps, [ID |-> nextID(bhaps), Author |-> Creator(p),
                               Status |-> draftStatus])
    /\ UNCHANGED <<votes, vreq, req, page>>

\* A creation request calls nextID. Nothing is written and nothing is locked
\* (bhap.go:67, "Nasty race condition here").
NextID(p) ==
    /\ cpc[p] = "idle"
    /\ Len(bhaps) + Cardinality(InFlightCreates) < MaxBHAPs
    /\ cid' = [cid EXCEPT ![p] = nextID(bhaps)]
    /\ cpc' = [cpc EXCEPT ![p] = "insert"]
    /\ UNCHANGED <<bhaps, votes, vreq, req, page>>

\* The creation request puts its proposal, a Draft of its user, under the id it
\* was given.
PutBHAP(p) ==
    /\ cpc[p] = "insert"
    /\ bhaps' = Append(bhaps, [ID |-> cid[p], Author |-> Creator(p),
                               Status |-> draftStatus])
    /\ cpc' = [cpc EXCEPT ![p] = "idle"]
    /\ cid' = [cid EXCEPT ![p] = 0]
    /\ UNCHANGED <<votes, vreq, req, page>>

(* ------------------------------- votes -------------------------------- *)

\* The values a cast vote may carry.
VoteChoices == {acceptedStatus, rejectedStatus}

NoVoteReq == [pc |-> "idle", bhap |-> 0, voter |-> Nil, Value |-> Nil, result |-> Nil]

\* Whether a vote of voter u on the proposal with key b is stored.
hasVote(store, b, u) == \E i \in 1..Len(store) : store[i].bhap = b /\ store[i].voter = u

InFlightVotes == {r \in VoteReqs : vreq[r].pc = "sent"}

\* User u submits a vote of value v on the stored proposal with key b.
SubmitVote(r, b, u, v) ==
    /\ vreq[r].pc \in {"idle", "done"}
    /\ b \in 1..Len(bhaps)
    /\ Len(votes) + Cardinality(InFlightVotes) < MaxVotes
    /\ vreq' = [vreq EXCEPT ![r] = [pc |-> "sent", bhap |-> b, voter |-> u,
                                   Value |-> v, result |-> Nil]]
    /\ UNCHANGED <<bhaps, votes, cpc, cid, req, page>>

\* createVote without its check: the vote is always inserted.
createVoteUnchecked(store, b, u, v) ==
    [votes |-> Append(store, [bhap |-> b, voter |-> u, Value |-> v]),
     result |-> "success"]

\* createVote: one atomic check-then-insert keyed on (proposal, voter).
createVote(store, b, u, v) ==
    IF hasVote(store, b, u)
    THEN [votes |-> store, result |-> "DuplicateVote"]
    ELSE [votes |-> Append(store, [bhap |-> b, voter |-> u, Value |-> v]),
          result |-> "success"]

\* The store applies a submitted vote.
CastVote(r) ==
    /\ vreq[r].pc = "sent"
    /\ LET out == createVote(votes, vreq[r].bhap, vreq[r].voter, vreq[r].Value)
       IN  /\ votes' = out.votes
           /\ vreq' = [vreq EXCEPT ![r] = [NoVoteReq EXCEPT !.pc = "done",
                                                            !.result = out.result]]
    /\ UNCHANGED <<bhaps, cpc, cid, req, page>>

(* -------------------- bhap_page.go: serveBHAPPage --------------------- *)

\* The Value a stored vote may hold: a status. Only Accepted and Rejected are
\* vote values; Draft stands for every other stored value.
VoteValues == {acceptedStatus, rejectedStatus, draftStatus}

\* The options mode with the status looked at before the session's user key.
modeStatusFirst(userKey, loadedBHAP, usersVoteKey) ==
    IF loadedBHAP.Status = draftStatus
    THEN IF userKey = Nil THEN notLoggedIn
         ELSE IF userKey = loadedBHAP.Author THEN draftAuthor ELSE draftNotAuthor
    ELSE IF loadedBHAP.Status = discussionStatus
         THEN IF userKey = loadedBHAP.Author THEN discussionAuthor
              ELSE IF usersVoteKey = Nil THEN discussionNoVote ELSE discussionVoted
    ELSE IF userKey = Nil THEN notLoggedIn
    ELSE finalized

\* The options mode with the two Draft modes swapped.
modeDraftSwapped(userKey, loadedBHAP, usersVoteKey) ==
    IF userKey = Nil THEN notLoggedIn
    ELSE IF loadedBHAP.Status = draftStatus
         THEN IF userKey = loadedBHAP.Author THEN draftNotAuthor ELSE draftAuthor
    ELSE IF loadedBHAP.Status = discussionStatus
         THEN IF userKey = loadedBHAP.Author THEN discussionAuthor
              ELSE IF usersVoteKey = Nil THEN discussionNoVote ELSE discussionVoted
    ELSE finalized

\* The options mode with the user's vote looked at before the authorship.
modeVoteBeforeAuthor(userKey, loadedBHAP, usersVoteKey) ==
    IF userKey = Nil THEN notLoggedIn
    ELSE IF loadedBHAP.Status = draftStatus
         THEN IF userKey = loadedBHAP.Author THEN draftAuthor ELSE draftNotAuthor
    ELSE IF loadedBHAP.Status = discussionStatus
         THEN IF usersVoteKey # Nil THEN discussionVoted
              ELSE IF userKey = loadedBHAP.Author THEN discussionAuthor
              ELSE discussionNoVote
    ELSE finalized

\* The options mode with a Deferred proposal handled like a Draft.
modeDeferredAsDraft(userKey, loadedBHAP, usersVoteKey) ==
    IF userKey = Nil THEN notLoggedIn
    ELSE IF loadedBHAP.Status \in {draftStatus, deferredStatus}
         THEN IF userKey = loadedBHAP.Author THEN draftAuthor ELSE draftNotAuthor
    ELSE IF loadedBHAP.Status = discussionStatus
         THEN IF userKey = loadedBHAP.Author THEN discussionAuthor
              ELSE IF usersVoteKey = Nil THEN discussionNoVote ELSE discussionVoted
    ELSE finalized

\* The options mode with the final else forgotten: mode keeps its zero value.
modeNoCatchAll(userKey, loadedBHAP, usersVoteKey) ==
    IF userKey = Nil THEN notLoggedIn
    ELSE IF loadedBHAP.Status = draftStatus
         THEN IF userKey = loadedBHAP.Author THEN draftAuthor ELSE draftNotAuthor
    ELSE IF loadedBHAP.Status = discussionStatus
         THEN IF userKey = loadedBHAP.Author THEN discussionAuthor
              ELSE IF usersVoteKey = Nil THEN discussionNoVote ELSE discussionVoted
    ELSE IF loadedBHAP.Status \in {rejectedStatus, withdrawnStatus,
                                   acceptedStatus, replacedStatus}
         THEN finalized
    ELSE ""

\* "Decide what options the user should have": the cascade on the session's
\* user key, the proposal's status and author, and the key of the user's vote.
mode(userKey, loadedBHAP, usersVoteKey) ==
    IF userKey = Nil THEN notLoggedIn
    ELSE IF loadedBHAP.Status = draftStatus
         THEN IF userKey = loadedBHAP.Author THEN draftAuthor ELSE draftNotAuthor
    ELSE IF loadedBHAP.Status = discussionStatus
         THEN IF userKey = loadedBHAP.Author THEN discussionAuthor
              ELSE IF usersVoteKey = Nil THEN discussionNoVote ELSE discussionVoted
    ELSE finalized

\* "Figure out the vote breakdown": the loop over allVotes, from the counts
\* <<acceptedCount, rejectedCount>> so far. A vote of any other value changes
\* neither count.
RECURSIVE countVotes(_, _, _)
countVotes(allVotes, acceptedCount, rejectedCount) ==
    IF allVotes = <<>> THEN <<acceptedCount, rejectedCount>>
    ELSE IF Head(allVotes).Value = acceptedStatus
         THEN countVotes(Tail(allVotes), acceptedCount + 1, rejectedCount)
    ELSE IF Head(allVotes).Value = rejectedStatus
         THEN countVotes(Tail(allVotes), acceptedCount, rejectedCount + 1)
    ELSE countVotes(Tail(allVotes), acceptedCount, rejectedCount)

\* undecidedCount without the author taken off.
undecidedCountWithAuthor(userCount, acceptedCount, rejectedCount) ==
    userCount - (acceptedCount + rejectedCount)

undecidedCount(userCount, acceptedCount, rejectedCount) ==
    userCount - (acceptedCount + rejectedCount) - 1

\* Go's integer division: the quotient truncated toward zero (b # 0).
GoDiv(a, b) ==
    LET abs(x) == IF x < 0 THEN -x ELSE x
        q == abs(a) \div abs(b)
    IN  IF (a < 0) = (b < 0) THEN q ELSE -q

\* The percentage with the multiplication done before the division.
percentMultiplyFirst(count, userCount) == GoDiv(count * 100, userCount - 1)

\* int((count / (userCount - 1)) * 100), userCount # 1.
percent(count, userCount) == GoDiv(count, userCount - 1) * 100

\* SelectedVote for the user's vote.
selectedVote(usersVote) ==
    IF usersVote = Nil THEN ""
    ELSE IF usersVote = acceptedStatus THEN "ACCEPT"
    ELSE "REJECTED"

\* isEditable: only a Draft is editable.
isEditable(s) == s = draftStatus

\* The handler with Editable also made to depend on the viewer: set only when
\* the session's user is the author.
serveBHAPPageEditableForAuthor(q) ==
    LET m == mode(q.userKey, q.loadedBHAP, q.usersVote)
        counts == countVotes(q.allVotes, 0, 0)
        a == counts[1]
        r == counts[2]
        u == undecidedCount(q.userCount, a, r)
        locals == [pc |-> "done", OptionsMode |-> m, acceptedCount |-> a,
                   rejectedCount |-> r, undecidedCount |-> u]
    IN  IF q.usersVote # Nil /\ q.usersVote \notin {acceptedStatus, rejectedStatus}
        THEN [resp |-> "500 Unknown vote type"] @@ locals
        ELSE IF q.userCount - 1 = 0
        THEN [resp |-> "panic: integer divide by zero"] @@ locals
        ELSE [resp |-> "200",
              LoggedIn |-> q.userKey # Nil,
              SelectedVote |-> selectedVote(q.usersVote),
              Editable |-> isEditable(q.loadedBHAP.Status)
                               /\ q.userKey = q.loadedBHAP.Author,
              VoteCount |-> Len(q.allVotes),
              UserCount |-> q.userCount - 1,
              PercentAccepted |-> percent(a, q.userCount),
              PercentRejected |-> percent(r, q.userCount),
              PercentUndecided |-> percent(u, q.userCount)] @@ locals

\* The handler from the point where its queries have returned (q: the loaded
\* proposal, the session's user key, the proposal's votes, the user count and
\* the user's own vote, Nil when usersVoteKey is nil). The outcome holds the
\* handler's locals and, in resp, how it ended: the 500 of an unknown value in
\* the user's own vote, the run-time panic of the division when userCount - 1
\* is 0, or the filler given to the template.
serveBHAPPage(q) ==
    LET m == mode(q.userKey, q.loadedBHAP, q.usersVote)
        counts == countVotes(q.allVotes, 0, 0)
        a == counts[1]
        r == counts[2]
        u == undecidedCount(q.userCount, a, r)
        locals == [pc |-> "done", OptionsMode |-> m, acceptedCount |-> a,
                   rejectedCount |-> r, undecidedCount |-> u]
    IN  IF q.usersVote # Nil /\ q.usersVote \notin {acceptedStatus, rejectedStatus}
        THEN [resp |-> "500 Unknown vote type"] @@ locals
        ELSE IF q.userCount - 1 = 0
        THEN [resp |-> "panic: integer divide by zero"] @@ locals
        ELSE [resp |-> "200",
              LoggedIn |-> q.userKey # Nil,
              SelectedVote |-> selectedVote(q.usersVote),
              Editable |-> isEditable(q.loadedBHAP.Status),
              VoteCount |-> Len(q.allVotes),
              UserCount |-> q.userCount - 1,
              PercentAccepted |-> percent(a, q.userCount),
              PercentRejected |-> percent(r, q.userCount),
              PercentUndecided |-> percent(u, q.userCount)] @@ locals

\* The request is served.
ServePage ==
    /\ req.pc = "ready"
    /\ page.pc = "idle"
    /\ page' = serveBHAPPage(req)
    /\ UNCHANGED <<bhaps, votes, cpc, cid, vreq, req>>

(* ------------------------ the store specification --------------------- *)

NoReq == [pc |-> "none"]
NoPage == [pc |-> "idle"]

Init ==
    /\ bhaps = <<>>
    /\ votes = <<>>
    /\ cpc = [p \in CreateReqs |-> "idle"]
    /\ cid = [p \in CreateReqs |-> 0]
    /\ vreq = [r \in VoteReqs |-> NoVoteReq]
    /\ req = NoReq
    /\ page = NoPage

Next ==
    \/ \E p \in CreateReqs : NextID(p)
    \/ \E p \in CreateReqs : PutBHAP(p)
    \/ \E r \in VoteReqs, b \in 1..MaxBHAPs, u \in Users, v \in VoteChoices :
          SubmitVote(r, b, u, v)
    \/ \E r \in VoteReqs : CastVote(r)

Spec == Init /\ [][Next]_vars

(* ------------------------ the site specification ---------------------- *)

\* The id strings a request's URL may carry.
IdStrs == {"0", "1", "2", "3", "abc"}

\* strconv.Atoi on those strings: the integer, or 0 and an error.
Atoi(idStr) ==
    IF idStr = "0" THEN [n |-> 0, err |-> FALSE]
    ELSE IF idStr = "1" THEN [n |-> 1, err |-> FALSE]
    ELSE IF idStr = "2" THEN [n |-> 2, err |-> FALSE]
    ELSE IF idStr = "3" THEN [n |-> 3, err |-> FALSE]
    ELSE [n |-> 0, err |-> TRUE]

\* bhapByID with the filter on the ID forgotten.
bhapByIDNoFilter(store, id) == 1..Len(store)

\* bhapByID: the query filtered by "ID =" and limited to one. The result is
\* the set of entities (by their place in the store) the query may return as
\* results[0]; the empty set is "exists == false" (a nil bhapKey in the
\* handler).
bhapByID(store, id) == {k \in 1..Len(store) : store[k].ID = id}

\* allVotesForBHAP: the stored votes of the proposal with key k.
allVotesForBHAP(store, k) == SelectSeq(store, LAMBDA v : v.bhap = k)

\* voteForBHAP: the value of the stored vote of userKey on the proposal with
\* key k, Nil (a nil usersVoteKey) when there is none.
voteForBHAP(store, k, userKey) ==
    IF hasVote(store, k, userKey)
    THEN (CHOOSE v \in Range(store) : v.bhap = k /\ v.voter = userKey).Value
    ELSE Nil

\* The response to a URL whose id is no integer.
BadIDPage == [pc |-> "done", resp |-> "400 ID must be an integer"]

\* The response to a request for an id no stored proposal has.
NotFoundPage(id) == [pc |-> "done", resp |-> "404 No BHAP with ID", id |-> id]

\* serveBHAPPage on the store: the id is parsed, the proposal is loaded by id,
\* and, when it exists, the remaining queries are run and the page is decided
\* as in serveBHAPPage(q). req keeps the parsed id and what the queries
\* returned. Every query is taken to succeed.
GetBHAPPage(idStr, userKey) ==
    LET parsed == Atoi(idStr)
        id == parsed.n
        found == bhapByID(bhaps, id)
    IN  /\ IF parsed.err
           THEN req' = [pc |-> "badid"] /\ page' = BadIDPage
           ELSE IF found = {}
           THEN req' = [pc |-> "notfound", id |-> id] /\ page' = NotFoundPage(id)
           ELSE \E k \in found :
                   /\ req' = [pc |-> "ready", id |-> id,
                              loadedBHAP |-> bhaps[k],
                              userKey |-> userKey,
                              usersVote |-> voteForBHAP(votes, k, userKey),
                              allVotes |-> allVotesForBHAP(votes, k),
                              userCount |-> Cardinality(Users)]
                   /\ page' = serveBHAPPage(req')
        /\ UNCHANGED <<bhaps, votes, cpc, cid, vreq>>

SiteNext ==
    \/ \E p \in CreateReqs : NextID(p)
    \/ \E p \in CreateReqs : PutBHAP(p)
    \/ \E idStr \in IdStrs, userKey \in Users \cup {Nil} : GetBHAPPage(idStr, userKey)

SiteSpec == Init /\ [][SiteNext]_vars

(* ------------------------ the page specification ---------------------- *)

\* The sequences over S of length at most n.
SeqsUpTo(S, n) == UNION {[1..k -> S] : k \in 0..n}

\* What the handler's queries may return.
PageRequests ==
    [pc : {"ready"},
     loadedBHAP : [ID : {0}, Author : Users, Status : status],
     userKey : Users \cup {Nil},
     usersVote : VoteValues \cup {Nil},
     allVotes : SeqsUpTo([Value : VoteValues], MaxPageVotes),
     userCount : 1..MaxUserCount]

PageInit ==
    /\ bhaps = <<>>
    /\ votes = <<>>
    /\ cpc = [p \in CreateReqs |-> "idle"]
    /\ cid = [p \in CreateReqs |-> 0]
    /\ vreq = [r \in VoteReqs |-> NoVoteReq]
    /\ req \in PageRequests
    /\ page = NoPage

PageNext == ServePage

PageSpec == PageInit /\ [][PageNext]_vars

(* ============================== claims ================================ *)

\* The values that count in the vote breakdown.
IsVoteValue(v) == v \in {acceptedStatus, rejectedStatus}

\* The page request was handled and the user's own vote, if any, had a known
\* value: the handler went on to the filler and its percentages.
ReachedFiller == page.pc = "done" /\ (req.usersVote = Nil \/ IsVoteValue(req.usersVote))

\* C1 (PageSpec): whatever the status, the session's user, the author and the
\* user's vote are, the options mode decided for the request is one of the
\* seven modes; no input is left without a mode.
C1_ModeIsTotal ==
    page.pc = "done" => page.OptionsMode \in optionsMode

\* C1 witness: a logged-in user's request for an April Fools proposal was
\* handled, the status the cascade names nowhere.
C1_Witness ==
    /\ page.pc = "done"
    /\ req.userKey # Nil
    /\ req.loadedBHAP.Status = aprilFoolsStatus
    /\ page.OptionsMode = finalized

\* C2 (Spec), as claimed: no two stored proposals have the same id, and once
\* two creations against the empty store have put their proposals, one holds
\* id 0 and the other id 1.
C2_ConcurrentCreatesGetZeroAndOne ==
    /\ \A i, j \in 1..Len(bhaps) : i # j => bhaps[i].ID # bhaps[j].ID
    /\ Len(bhaps) = 2 => {bhaps[1].ID, bhaps[2].ID} = {0, 1}

\* C3 (PageSpec): for every vote list and every user count above 1, the three
\* counts of the breakdown add up to userCount - 1.
C3_CountsSumToEligible ==
    (page.pc = "done" /\ req.userCount > 1) =>
        page.acceptedCount + page.rejectedCount + page.undecidedCount
            = req.userCount - 1

\* C3 witness: a breakdown with an accepted, a rejected and an unknown vote
\* among four eligible voters.
C3_Witness ==
    /\ page.pc = "done"
    /\ req.userCount = 5
    /\ page.acceptedCount = 1
    /\ page.rejectedCount = 1
    /\ page.undecidedCount = 2
    /\ Len(req.allVotes) = 3

\* C4 (PageSpec), as claimed: with a user count of 1 (no eligible voter) the
\* breakdown ends with the error NoEligibleVoters.
C4_NoEligibleVotersReported ==
    (ReachedFiller /\ req.userCount = 1) => page.resp = "NoEligibleVoters"

\* C5 (PageSpec), as claimed: a vote list holding a value that is neither
\* Accepted nor Rejected never yields a rendered breakdown (here with at least
\* one eligible voter, so that the percentages are defined): the request ends
\* with an error instead.
C5_InvalidVoteValueReported ==
    (/\ page.pc = "done"
     /\ req.userCount > 1
     /\ \E i \in 1..Len(req.allVotes) : ~IsVoteValue(req.allVotes[i].Value))
        => page.resp # "200"

\* C6 (PageSpec), as claimed: no rendered breakdown has a negative
\* undecidedCount.
C6_UndecidedNeverNegative ==
    (page.pc = "done" /\ page.resp = "200") => page.undecidedCount >= 0

\* C7 (PageSpec), as claimed: a proposal in Discussion, 5 users, 2 Accepted
\* votes and 1 Rejected vote give the counts 2, 1, 1 and the percentages
\* 50, 25, 25.
C7_ScenarioPercentages ==
    (/\ ReachedFiller
     /\ req.loadedBHAP.Status = discussionStatus
     /\ req.userCount = 5
     /\ Len(req.allVotes) = 3
     /\ Cardinality({i \in 1..3 : req.allVotes[i].Value = acceptedStatus}) = 2
     /\ Cardinality({i \in 1..3 : req.allVotes[i].Value = rejectedStatus}) = 1)
        => /\ page.acceptedCount = 2
           /\ page.rejectedCount = 1
           /\ page.undecidedCount = 1
           /\ page.PercentAccepted = 50
           /\ page.PercentRejected = 25
           /\ page.PercentUndecided = 25

C9_IdsIncreaseWithCreation ==
    \A i, j \in 1..Len(bhaps) : i < j => bhaps[i].ID < bhaps[j].ID

\* C10 (Spec): at most one vote is stored per (proposal, voter), and a
\* submission for a pair that has a vote ends with DuplicateVote and leaves
\* the stored votes as they were.
C10_AtMostOneVotePerPair ==
    /\ [](\A i, j \in 1..Len(votes) :
            (votes[i].bhap = votes[j].bhap /\ votes[i].voter = votes[j].voter)
                => i = j)
    /\ [][\A r \in VoteReqs :
            (/\ vreq[r].pc = "sent"
             /\ vreq'[r].pc = "done"
             /\ \E i \in 1..Len(votes) : /\ votes[i].bhap = vreq[r].bhap
                                         /\ votes[i].voter = vreq[r].voter)
                => (vreq'[r].result = "DuplicateVote" /\ votes' = votes)]_vars

\* C10 witness: a submission was rejected as a duplicate while the first vote
\* of the pair is stored.
C10_Witness ==
    \E r \in VoteReqs :
        /\ vreq[r].pc = "done"
        /\ vreq[r].result = "DuplicateVote"
        /\ Len(votes) = 1

\* C11 (PageSpec): when the session has no user, the options mode is
\* notLoggedIn for every status, whoever the author is and whether or not a
\* vote was found.
C11_NoUserIsNotLoggedIn ==
    (page.pc = "done" /\ req.userKey = Nil) => page.OptionsMode = notLoggedIn

\* C11 witness: a request without a user for a proposal in Discussion, with a
\* vote found, was given notLoggedIn.
C11_Witness ==
    /\ page.pc = "done"
    /\ req.userKey = Nil
    /\ req.loadedBHAP.Status = discussionStatus
    /\ req.usersVote # Nil
    /\ page.OptionsMode = notLoggedIn

\* C12 (PageSpec): for a logged-in user and a Draft, the options mode is
\* draftAuthor when the user is the author and draftNotAuthor otherwise,
\* whether or not a vote of the user was found; the page rendered for the
\* author has Editable = TRUE.
C12_DraftSplitByAuthor ==
    (/\ page.pc = "done"
     /\ req.userKey # Nil
     /\ req.loadedBHAP.Status = draftStatus)
        => /\ page.OptionsMode = IF req.userKey = req.loadedBHAP.Author
                                 THEN draftAuthor ELSE draftNotAuthor
           /\ (page.resp = "200" /\ req.userKey = req.loadedBHAP.Author)
                  => page.Editable = TRUE

\* C12 witness: the author's own Draft was rendered, with a vote of the
\* author found.
C12_Witness ==
    /\ page.pc = "done"
    /\ page.resp = "200"
    /\ req.loadedBHAP.Status = draftStatus
    /\ req.userKey = req.loadedBHAP.Author
    /\ req.usersVote = acceptedStatus
    /\ page.OptionsMode = draftAuthor
    /\ page.Editable = TRUE

\* C13 (PageSpec): for a logged-in user and a proposal in Discussion, the
\* options mode is discussionAuthor when the user is the author, also when a
\* vote of the author was found; for any other user it is discussionVoted
\* exactly when a vote of the user was found, and discussionNoVote otherwise.
C13_DiscussionSplit ==
    (/\ page.pc = "done"
     /\ req.userKey # Nil
     /\ req.loadedBHAP.Status = discussionStatus)
        => IF req.userKey = req.loadedBHAP.Author
           THEN page.OptionsMode = discussionAuthor
           ELSE /\ (page.OptionsMode = discussionVoted) <=> (req.usersVote # Nil)
                /\ (page.OptionsMode = discussionNoVote) <=> (req.usersVote = Nil)

\* C13 witness: the author of a proposal in Discussion, of whom a vote was
\* found, was given discussionAuthor.
C13_Witness ==
    /\ page.pc = "done"
    /\ req.loadedBHAP.Status = discussionStatus
    /\ req.userKey = req.loadedBHAP.Author
    /\ req.usersVote = rejectedStatus
    /\ page.OptionsMode = discussionAuthor

\* C14 (PageSpec): for a logged-in user and each of the six statuses other
\* than Draft and Discussion, the options mode is finalized, whoever the
\* author is and whether or not a vote was found.
C14_OtherStatusesFinalized ==
    (/\ page.pc = "done"
     /\ req.userKey # Nil
     /\ req.loadedBHAP.Status \in {deferredStatus, rejectedStatus, withdrawnStatus,
                                   acceptedStatus, replacedStatus, aprilFoolsStatus})
        => page.OptionsMode = finalized

\* C14 witness: the author of a Deferred proposal, with a vote found, was
\* given finalized.
C14_Witness ==
    /\ page.pc = "done"
    /\ req.loadedBHAP.Status = deferredStatus
    /\ req.userKey = req.loadedBHAP.Author
    /\ req.usersVote # Nil
    /\ page.OptionsMode = finalized

\* C15 (PageSpec): the Editable flag of a rendered page is TRUE exactly when
\* the proposal's status is Draft, and FALSE for the seven other statuses,
\* whoever the viewer is.
C15_EditableIffDraft ==
    (page.pc = "done" /\ page.resp = "200")
        => page.Editable = (req.loadedBHAP.Status = draftStatus)

\* C15 witness: a Draft was rendered as editable for a viewer who is not
\* logged in.
C15_Witness ==
    /\ page.pc = "done"
    /\ page.resp = "200"
    /\ req.loadedBHAP.Status = draftStatus
    /\ req.userKey = Nil
    /\ page.Editable = TRUE

\* C19 (PageSpec): on a rendered page (userCount > 1), a bucket count c with
\* 0 <= c <= userCount - 1 has the percentage 100 when c = userCount - 1 and
\* 0 when c is smaller; so when the three counts are in that range, the three
\* percentages sum to 100 if one bucket holds all eligible voters and to 0
\* otherwise.
C19_PercentIsAllOrNothing ==
    (page.pc = "done" /\ page.resp = "200") =>
        LET n == req.userCount - 1
            AllOrNothing(c, pct) ==
                (0 <= c /\ c <= n) => pct = IF c = n THEN 100 ELSE 0
            sum == page.PercentAccepted + page.PercentRejected
                       + page.PercentUndecided
        IN  /\ req.userCount > 1
            /\ AllOrNothing(page.acceptedCount, page.PercentAccepted)
            /\ AllOrNothing(page.rejectedCount, page.PercentRejected)
            /\ AllOrNothing(page.undecidedCount, page.PercentUndecided)
            /\ page.undecidedCount >= 0 =>
                  sum = IF n \in {page.acceptedCount, page.rejectedCount,
                                  page.undecidedCount}
                        THEN 100 ELSE 0

\* C19 witness: 2 accepted, 1 rejected and 1 undecided of 4 eligible voters
\* were rendered as 0, 0 and 0 percent.
C19_Witness ==
    /\ page.pc = "done"
    /\ page.resp = "200"
    /\ req.userCount = 5
    /\ page.acceptedCount = 2
    /\ page.rejectedCount = 1
    /\ page.undecidedCount = 1
    /\ page.PercentAccepted = 0
    /\ page.PercentRejected = 0
    /\ page.PercentUndecided = 0

\* C18: the options mode and the vote breakdown are operators of the
\* handler's inputs alone (mode, countVotes, undecidedCount, percent); that
\* two evaluations on equal inputs agree is true of every operator and is
\* not stated as a formula.

\* C20 (Spec): a call of nextID leaves the stored proposals and votes as they
\* were and reserves nothing: the id it returned is still the id the next
\* call returns, and it equals the id held by every other request whose id is
\* still the next one; the stored proposals change only when a request puts
\* the proposal with the id it holds.
C20_NextIDOnlyReads ==
    [][/\ \A p \in CreateReqs :
            (cpc[p] = "idle" /\ cpc'[p] = "insert") =>
                /\ bhaps' = bhaps
                /\ votes' = votes
                /\ nextID(bhaps') = cid'[p]
                /\ \A q \in CreateReqs \ {p} :
                      (cpc[q] = "insert" /\ cid[q] = nextID(bhaps))
                          => cid'[p] = cid[q]
       /\ bhaps' # bhaps =>
            \E p \in CreateReqs :
                /\ cpc[p] = "insert"
                /\ cpc'[p] = "idle"
                /\ Len(bhaps') = Len(bhaps) + 1
                /\ SubSeq(bhaps', 1, Len(bhaps)) = bhaps
                /\ bhaps'[Len(bhaps')].ID = cid[p]]_vars

\* C20 witness: both requests have called nextID on the empty store, hold the
\* same id 0, and neither has put its proposal.
C20_Witness ==
    /\ Len(bhaps) = 0
    /\ \A p \in CreateReqs : cpc[p] = "insert" /\ cid[p] = 0

\* C17 (SiteSpec): a request for an integer id that no stored proposal has
\* ends with the 404 response and nothing else: no options mode, no vote
\* breakdown and no filler are computed, and the stored proposals and votes
\* are left as they were.
C17_UnknownIDIsNotFound ==
    [][(/\ <<req, page>>' # <<req, page>>
        /\ req'.pc \in {"ready", "notfound"}
        /\ \A k \in 1..Len(bhaps) : bhaps[k].ID # req'.id)
           => /\ page' = NotFoundPage(req'.id)
              /\ bhaps' = bhaps
              /\ votes' = votes]_vars

\* C17 witness: with a proposal stored under id 0, a request for id 1 was
\* answered with 404.
C17_Witness ==
    /\ Len(bhaps) >= 1
    /\ req.pc = "notfound"
    /\ req.id = 1
    /\ page = NotFoundPage(1)
    /\ \A k \in 1..Len(bhaps) : bhaps[k].ID # 1

====
